---------------------------- MODULE Spec2Model ----------------------------
(***************************************************************************)
(* C2PAremover: detection and removal of C2PA metadata in JPEG and PNG     *)
(* byte streams.  Two builds of the same API are modelled:                 *)
(*   "native" - main.go         (build tag !wasmer)                        *)
(*   "wasm"   - main_wasmer.go  (build tag wasmer)                         *)
(* A byte slice is a sequence of integers 0..255; Go's 0-based index i is  *)
(* element i+1 of the sequence.  A nil slice is the empty sequence (it     *)
(* holds no bytes; bytes.Equal(nil, []byte{}) is true).                    *)
(* The results of CheckC2PA are the strings "true", "false" and "panic":   *)
(* "panic" is a Go runtime fault (slice bounds out of range).              *)
(***************************************************************************)
EXTENDS Integers, Sequences, FiniteSets, TLC

(***************************************************************************)
(* Bounds of the input space.                                              *)
(***************************************************************************)
MaxSegs == 2      \* JPEG: metadata pieces between SOI and the tail
MaxChunks == 2    \* PNG: chunks between the head and the tail

(***************************************************************************)
(* Byte-slice primitives (package bytes / strings, Go slice expressions).  *)
(***************************************************************************)
At(d, i) == d[i + 1]

Slice(d, lo, hi) == SubSeq(d, lo + 1, hi)

HasPrefix(d, p) == Len(d) >= Len(p) /\ SubSeq(d, 1, Len(p)) = p

HasSuffix(d, p) == Len(d) >= Len(p) /\ SubSeq(d, Len(d) - Len(p) + 1, Len(d)) = p

Contains(d, p) == \E i \in 0..(Len(d) - Len(p)) : SubSeq(d, i + 1, i + Len(p)) = p

ToLower(d) == [i \in 1..Len(d) |-> IF d[i] \in 65..90 THEN d[i] + 32 ELSE d[i]]

RECURSIVE Concat(_)
Concat(ss) == IF ss = <<>> THEN <<>> ELSE Head(ss) \o Concat(Tail(ss))

(***************************************************************************)
(* String constants of the program, as bytes.                              *)
(***************************************************************************)
\* "http://ns.adobe.com/xap/1.0/"
XMP_PREFIX == <<104, 116, 116, 112, 58, 47, 47, 110, 115, 46, 97, 100, 111, 98, 101, 46, 99, 111, 109, 47, 120, 97, 112, 47, 49, 46, 48, 47>>

\* "http://c2pa.org/"
C2PA_NAMESPACE == <<104, 116, 116, 112, 58, 47, 47, 99, 50, 112, 97, 46, 111, 114, 103, 47>>

\* "c2pa:manifest"
C2PA_MANIFEST_TAG == <<99, 50, 112, 97, 58, 109, 97, 110, 105, 102, 101, 115, 116>>

\* "c2pa:claim"
C2PA_CLAIM_TAG == <<99, 50, 112, 97, 58, 99, 108, 97, 105, 109>>

\* WASM build: c2paNamespace is the XMP prefix itself
c2paNamespace == XMP_PREFIX

\* "c2pa.manifest"
c2paManifest == <<99, 50, 112, 97, 46, 109, 97, 110, 105, 102, 101, 115, 116>>

PNG_SIGNATURE == <<137, 80, 78, 71, 13, 10, 26, 10>>

SOI == <<255, 216>>

EOI == <<255, 217>>

S_c2pa == <<99, 50, 112, 97>>
S_C2PA == <<67, 50, 80, 65>>
S_cai == <<99, 97, 105>>
S_caiColon == <<99, 97, 105, 58>>
S_contentauthenticity == <<99, 111, 110, 116, 101, 110, 116, 97, 117, 116, 104, 101, 110, 116, 105, 99, 105, 116, 121>>
S_contentcredentials == <<99, 111, 110, 116, 101, 110, 116, 99, 114, 101, 100, 101, 110, 116, 105, 97, 108, 115>>
S_jumbf == <<106, 117, 109, 98, 102>>
T_IEND == <<73, 69, 78, 68>>
T_IHDR == <<73, 72, 68, 82>>
T_IDAT == <<73, 68, 65, 84>>
T_iTXt == <<105, 84, 88, 116>>
T_tEXt == <<116, 69, 88, 116>>

(***************************************************************************)
(* regexp `(?i)c2pa|contentauthenticity|contentcredentials|cai` applied    *)
(* with MatchString: an unanchored, case-insensitive search.  Case folding *)
(* is modelled on ASCII letters (the inputs of the model are ASCII text).  *)
(***************************************************************************)
c2paRegexMatch(s) ==
  LET l == ToLower(s) IN
    \/ Contains(l, S_c2pa)
    \/ Contains(l, S_contentauthenticity)
    \/ Contains(l, S_contentcredentials)
    \/ Contains(l, S_cai)

\* binary.BigEndian.Uint16(data[pos:pos+2])
Uint16(d, pos) == At(d, pos) * 256 + At(d, pos + 1)

\* uint32(data[pos])<<24 | ... | uint32(data[pos+3]).  A 32-bit value is held
\* as its two 16-bit halves (the model checker's integers are 32 bits signed).
Uint32(d, pos) ==
  [hi |-> At(d, pos) * 256 + At(d, pos + 1), lo |-> At(d, pos + 2) * 256 + At(d, pos + 3)]

\* int(v) of a uint32 below 2^31
ToInt(v) == v.hi * 65536 + v.lo

\* a + int(v) > n, for 0 <= a, n < 2^31 - 2^16 (int is 64 bits: no wrap-around)
AddExceeds(a, v, n) == v.hi >= 32767 \/ a + ToInt(v) > n

(***************************************************************************)
(* Native build: detection (main.go).                                      *)
(***************************************************************************)
\* the three XMP tests of checkC2PAJPEG on one APP1 payload
xmpHasC2PA(segmentData) ==
  /\ HasPrefix(segmentData, XMP_PREFIX)
  /\ \/ Contains(segmentData, C2PA_NAMESPACE)
     \/ Contains(segmentData, C2PA_MANIFEST_TAG)
     \/ Contains(segmentData, C2PA_CLAIM_TAG)
     \/ c2paRegexMatch(segmentData)

\* the loop of checkC2PAJPEG from position pos
RECURSIVE checkC2PAJPEGLoop(_, _)
checkC2PAJPEGLoop(data, pos) ==
  IF ~(pos < Len(data) - 4) THEN "false"
  ELSE IF At(data, pos) # 255 THEN checkC2PAJPEGLoop(data, pos + 1)
  ELSE LET markerType == At(data, pos + 1)
           length == Uint16(data, pos + 2)
       IN  IF markerType = 218 THEN "false"
           ELSE IF markerType = 225 THEN
             IF pos + 2 + length > Len(data) THEN checkC2PAJPEGLoop(data, pos + 2)
             \* data[pos+4:pos+2+length] faults when length < 2
             ELSE IF pos + 4 > pos + 2 + length THEN "panic"
             ELSE IF xmpHasC2PA(Slice(data, pos + 4, pos + 2 + length)) THEN "true"
             ELSE checkC2PAJPEGLoop(data, pos + 2 + length)
           ELSE IF markerType = 235 THEN
             IF pos + 2 + length > Len(data) THEN checkC2PAJPEGLoop(data, pos + 2)
             ELSE "true"
           ELSE IF markerType >= 224 /\ markerType <= 239 THEN
             IF pos + 2 + length > Len(data) THEN checkC2PAJPEGLoop(data, pos + 2)
             ELSE checkC2PAJPEGLoop(data, pos + 2 + length)
           ELSE checkC2PAJPEGLoop(data, pos + 2)

checkC2PAJPEG(data) == checkC2PAJPEGLoop(data, 2)

\* mutant: the lower-case "c2pa" test is left out
checkC2PAPNG_noLowerC2pa(data) ==
  IF \/ Contains(data, S_C2PA)
     \/ Contains(data, S_caiColon)
     \/ Contains(data, S_contentauthenticity)
     \/ Contains(data, S_contentcredentials)
  THEN "true" ELSE "false"

checkC2PAPNG(data) ==
  IF \/ Contains(data, S_C2PA)
     \/ Contains(data, S_c2pa)
     \/ Contains(data, S_caiColon)
     \/ Contains(data, S_contentauthenticity)
     \/ Contains(data, S_contentcredentials)
  THEN "true" ELSE "false"

(***************************************************************************)
(* PNG chunk walker (identical text in main.go and main_wasmer.go).        *)
(* int is 64 bits wide on the build targets (amd64, wasm), so              *)
(* pos+int(length)+4 does not wrap for a 32-bit length.                    *)
(***************************************************************************)
\* mutant: the CRC is read where the data starts (pos not advanced past the data)
pngChunk_crcAtData(data, pos) ==
  LET length == Uint32(data, pos)
  IN  [length |-> length,
       chunkType |-> Slice(data, pos + 4, pos + 8),
       data |-> Slice(data, pos + 8, pos + 8 + ToInt(length)),
       crc |-> Uint32(data, pos + 8)]

\* one pngChunk record, read at pos (the 8-byte header is inside the buffer)
pngChunk(data, pos) ==
  LET length == Uint32(data, pos)
  IN  [length |-> length,
       chunkType |-> Slice(data, pos + 4, pos + 8),
       data |-> Slice(data, pos + 8, pos + 8 + ToInt(length)),
       crc |-> Uint32(data, pos + 8 + ToInt(length))]

RECURSIVE extractPNGChunksLoop(_, _, _)
extractPNGChunksLoop(data, pos, chunks) ==
  IF ~(pos + 12 <= Len(data)) THEN chunks
  ELSE LET length == Uint32(data, pos)
       IN  IF AddExceeds(pos + 8 + 4, length, Len(data)) THEN chunks
           ELSE LET c == pngChunk(data, pos)
                IN  IF c.chunkType = T_IEND THEN Append(chunks, c)
                    ELSE extractPNGChunksLoop(data, pos + 8 + ToInt(length) + 4, Append(chunks, c))

extractPNGChunks(data) == extractPNGChunksLoop(data, 8, <<>>)

(***************************************************************************)
(* WASM build: JPEG segment walker and detection (main_wasmer.go).         *)
(***************************************************************************)
\* mutant: Length holds the payload length instead of the declared length
jpegSegment_payloadLength(marker, length, segmentData) ==
  [Marker |-> marker, Length |-> IF length > 0 THEN length - 2 ELSE 0, Data |-> segmentData]

jpegSegment(marker, length, segmentData) ==
  [Marker |-> marker, Length |-> length, Data |-> segmentData]

RECURSIVE parseJPEGLoop(_, _, _)
parseJPEGLoop(data, pos, segments) ==
  IF ~(pos < Len(data) - 1) THEN segments
  ELSE IF At(data, pos) # 255 THEN parseJPEGLoop(data, pos + 1, segments)
  ELSE LET marker == At(data, pos + 1)
           p == pos + 2
       IN  IF (marker >= 208 /\ marker <= 215) \/ marker = 1
             THEN parseJPEGLoop(data, p, Append(segments, jpegSegment(marker, 0, <<>>)))
           ELSE IF marker = 218 THEN Append(segments, jpegSegment(marker, 0, <<>>))
           ELSE IF marker = 217 THEN Append(segments, jpegSegment(marker, 0, <<>>))
           ELSE IF p + 2 > Len(data) THEN segments
           ELSE LET length == Uint16(data, p)
                    payloadLength == length - 2
                IN  IF length < 2 THEN segments
                    ELSE IF p + 2 + payloadLength > Len(data) THEN segments
                    ELSE parseJPEGLoop(data, p + 2 + payloadLength,
                           Append(segments,
                             jpegSegment(marker, length, Slice(data, p + 2, p + 2 + payloadLength))))

\* nil (no SOI) and "no segments" are both the empty sequence
parseJPEG(data) ==
  IF Len(data) < 2 \/ At(data, 0) # 255 \/ At(data, 1) # 216 THEN <<>>
  ELSE parseJPEGLoop(data, 2, <<>>)

\* the per-segment test shared by the WASM detector and the WASM fallback
wasmSegmentIsC2PA(seg) ==
  \/ seg.Marker = 235
  \/ /\ seg.Marker = 225
     /\ (Contains(seg.Data, c2paNamespace) \/ Contains(seg.Data, c2paManifest))

wasmCheckC2PAJPEG(data) ==
  LET segments == parseJPEG(data)
  IN  IF \E i \in 1..Len(segments) : wasmSegmentIsC2PA(segments[i])
      THEN "true" ELSE "false"

wasmCheckC2PAPNG(data) ==
  IF ~HasPrefix(data, PNG_SIGNATURE) THEN "false"
  ELSE IF \/ Contains(data, S_C2PA)
          \/ Contains(data, S_c2pa)
          \/ Contains(data, S_caiColon)
          \/ Contains(data, S_contentauthenticity)
          \/ Contains(data, S_contentcredentials)
       THEN "true"
  ELSE LET chunks == extractPNGChunks(data)
       IN  IF \E i \in 1..Len(chunks) :
                /\ chunks[i].chunkType \in {T_iTXt, T_tEXt}
                /\ \/ Contains(chunks[i].data, S_c2pa)
                   \/ Contains(chunks[i].data, S_C2PA)
                   \/ Contains(chunks[i].data, S_contentauthenticity)
           THEN "true" ELSE "false"

(***************************************************************************)
(* CheckC2PA of either build.                                              *)
(***************************************************************************)
nativeCheckC2PA(data) ==
  IF HasPrefix(data, SOI) THEN checkC2PAJPEG(data)
  ELSE IF HasPrefix(data, PNG_SIGNATURE) THEN checkC2PAPNG(data)
  ELSE "false"

wasmCheckC2PA(data) ==
  IF HasPrefix(data, SOI) THEN wasmCheckC2PAJPEG(data)
  ELSE IF HasPrefix(data, PNG_SIGNATURE) THEN wasmCheckC2PAPNG(data)
  ELSE "false"

CheckC2PA(b, data) == IF b = "native" THEN nativeCheckC2PA(data) ELSE wasmCheckC2PA(data)

(***************************************************************************)
(* Native build: JPEG fallback (main.go, removeC2PAFallbackJPEG).          *)
(* A result of a removal function is [bytes, err]; err = "nil" is success. *)
(***************************************************************************)
Ret(bytes, err) == [bytes |-> bytes, err |-> err]

\* the loop of removeC2PAFallbackJPEG; yields [result, foundSOS]
RECURSIVE fallbackJPEGLoop(_, _, _)
\* mutant: a length below 2 ends the walk instead of being stepped over
fallbackJPEGLoop_breakOnShortLength(data, pos, result) ==
  IF ~(pos < Len(data) - 1) THEN [result |-> result, foundSOS |-> FALSE]
  ELSE IF At(data, pos) # 255 THEN fallbackJPEGLoop(data, pos + 1, result)
  ELSE LET markerType == At(data, pos + 1)
       IN  IF markerType = 218
             THEN [result |-> result \o Slice(data, pos, Len(data)), foundSOS |-> TRUE]
           ELSE IF markerType = 217
             THEN [result |-> result \o Slice(data, pos, pos + 2), foundSOS |-> FALSE]
           ELSE IF (markerType >= 208 /\ markerType <= 215) \/ markerType = 1
             THEN fallbackJPEGLoop(data, pos + 2, result \o <<255, markerType>>)
           ELSE IF pos + 4 > Len(data) THEN [result |-> result, foundSOS |-> FALSE]
           ELSE LET length == Uint16(data, pos + 2)
                IN  IF length < 2 THEN [result |-> result, foundSOS |-> FALSE]
                    ELSE IF pos + 2 + length > Len(data)
                      THEN [result |-> result, foundSOS |-> FALSE]
                    ELSE IF markerType = 225 THEN
                      IF xmpHasC2PA(Slice(data, pos + 4, pos + 2 + length))
                        THEN fallbackJPEGLoop(data, pos + 2 + length, result)
                        ELSE fallbackJPEGLoop(data, pos + 2 + length,
                                              result \o Slice(data, pos, pos + 2 + length))
                    ELSE IF markerType = 235
                      THEN fallbackJPEGLoop(data, pos + 2 + length, result)
                    ELSE fallbackJPEGLoop(data, pos + 2 + length,
                                          result \o Slice(data, pos, pos + 2 + length))

fallbackJPEGLoop(data, pos, result) ==
  IF ~(pos < Len(data) - 1) THEN [result |-> result, foundSOS |-> FALSE]
  ELSE IF At(data, pos) # 255 THEN fallbackJPEGLoop(data, pos + 1, result)
  ELSE LET markerType == At(data, pos + 1)
       IN  IF markerType = 218
             THEN [result |-> result \o Slice(data, pos, Len(data)), foundSOS |-> TRUE]
           ELSE IF markerType = 217
             THEN [result |-> result \o Slice(data, pos, pos + 2), foundSOS |-> FALSE]
           ELSE IF (markerType >= 208 /\ markerType <= 215) \/ markerType = 1
             THEN fallbackJPEGLoop(data, pos + 2, result \o <<255, markerType>>)
           ELSE IF pos + 4 > Len(data) THEN [result |-> result, foundSOS |-> FALSE]
           ELSE LET length == Uint16(data, pos + 2)
                IN  IF length < 2 THEN fallbackJPEGLoop(data, pos + 2, result)
                    ELSE IF pos + 2 + length > Len(data)
                      THEN [result |-> result, foundSOS |-> FALSE]
                    ELSE IF markerType = 225 THEN
                      IF xmpHasC2PA(Slice(data, pos + 4, pos + 2 + length))
                        THEN fallbackJPEGLoop(data, pos + 2 + length, result)
                        ELSE fallbackJPEGLoop(data, pos + 2 + length,
                                              result \o Slice(data, pos, pos + 2 + length))
                    ELSE IF markerType = 235
                      THEN fallbackJPEGLoop(data, pos + 2 + length, result)
                    ELSE fallbackJPEGLoop(data, pos + 2 + length,
                                          result \o Slice(data, pos, pos + 2 + length))

\* the number of segments the loop of removeC2PAFallbackJPEG walks over
\* without appending them to result (the two "Removing ..." branches)
RECURSIVE fallbackJPEGDropped(_, _)
fallbackJPEGDropped(data, pos) ==
  IF ~(pos < Len(data) - 1) THEN 0
  ELSE IF At(data, pos) # 255 THEN fallbackJPEGDropped(data, pos + 1)
  ELSE LET markerType == At(data, pos + 1)
       IN  IF markerType \in {218, 217} THEN 0
           ELSE IF (markerType >= 208 /\ markerType <= 215) \/ markerType = 1
             THEN fallbackJPEGDropped(data, pos + 2)
           ELSE IF pos + 4 > Len(data) THEN 0
           ELSE LET length == Uint16(data, pos + 2)
                IN  IF length < 2 THEN fallbackJPEGDropped(data, pos + 2)
                    ELSE IF pos + 2 + length > Len(data) THEN 0
                    ELSE (IF \/ markerType = 235
                             \/ /\ markerType = 225
                                /\ xmpHasC2PA(Slice(data, pos + 4, pos + 2 + length))
                            THEN 1 ELSE 0)
                         + fallbackJPEGDropped(data, pos + 2 + length)

\* mutant: result starts empty instead of with the SOI marker
removeC2PAFallbackJPEG_noSOI(data) ==
  IF Len(data) < 2 \/ At(data, 0) # 255 \/ At(data, 1) # 216
    THEN Ret(<<>>, "not a valid JPEG file")
  ELSE LET r == fallbackJPEGLoop(data, 2, <<>>)
       IN  IF ~r.foundSOS /\ ~HasSuffix(r.result, EOI)
             THEN Ret(r.result \o EOI, "nil")
             ELSE Ret(r.result, "nil")

\* mutant: an EOI is appended whenever no SOS was found, also behind an EOI
removeC2PAFallbackJPEG_alwaysEOI(data) ==
  IF Len(data) < 2 \/ At(data, 0) # 255 \/ At(data, 1) # 216
    THEN Ret(<<>>, "not a valid JPEG file")
  ELSE LET r == fallbackJPEGLoop(data, 2, SOI)
       IN  IF ~r.foundSOS
             THEN Ret(r.result \o EOI, "nil")
             ELSE Ret(r.result, "nil")

removeC2PAFallbackJPEG(data) ==
  IF Len(data) < 2 \/ At(data, 0) # 255 \/ At(data, 1) # 216
    THEN Ret(<<>>, "not a valid JPEG file")
  ELSE LET r == fallbackJPEGLoop(data, 2, SOI)
       IN  IF ~r.foundSOS /\ ~HasSuffix(r.result, EOI)
             THEN Ret(r.result \o EOI, "nil")
             ELSE Ret(r.result, "nil")

(***************************************************************************)
(* Native build: PNG fallback (main.go, removeC2PAFallbackPNG).            *)
(***************************************************************************)
\* the test that marks a chunk for removal
isC2PAChunk(chunk) ==
  /\ chunk.chunkType \in {T_iTXt, T_tEXt}
  /\ \/ Contains(ToLower(chunk.data), S_c2pa)
     \/ Contains(ToLower(chunk.data), S_contentauthenticity)
     \/ Contains(ToLower(chunk.data), S_caiColon)

\* byte(v >> 24), byte(v >> 16), byte(v >> 8), byte(v)
PutUint32(v) == <<v.hi \div 256, v.hi % 256, v.lo \div 256, v.lo % 256>>

\* mutant: the CRC field is written as zero
writeChunk_noCRC(chunk) ==
  PutUint32(chunk.length) \o chunk.chunkType \o chunk.data \o <<0, 0, 0, 0>>

\* the four buf.Write calls for one retained chunk
writeChunk(chunk) ==
  PutUint32(chunk.length) \o chunk.chunkType \o chunk.data \o PutUint32(chunk.crc)

RECURSIVE writeChunks(_, _)
writeChunks(chunks, i) ==
  IF i > Len(chunks) THEN <<>>
  ELSE IF isC2PAChunk(chunks[i]) THEN writeChunks(chunks, i + 1)
  ELSE writeChunk(chunks[i]) \o writeChunks(chunks, i + 1)

\* mutant: the rebuilt bytes are returned as a success even when no chunk was dropped
removeC2PAFallbackPNG_noRemovedCheck(data) ==
  LET chunks == extractPNGChunks(data)
      cleanedData == PNG_SIGNATURE \o writeChunks(chunks, 1)
  IN  IF Len(chunks) = 0 THEN Ret(<<>>, "failed to parse PNG chunks")
      ELSE IF nativeCheckC2PA(cleanedData) = "true"
        THEN Ret(data, "PNG fallback removal failed verification check")
      ELSE Ret(cleanedData, "nil")

removeC2PAFallbackPNG(data) ==
  LET chunks == extractPNGChunks(data)
      removed == \E i \in 1..Len(chunks) : isC2PAChunk(chunks[i])
      cleanedData == PNG_SIGNATURE \o writeChunks(chunks, 1)
  IN  IF Len(chunks) = 0 THEN Ret(<<>>, "failed to parse PNG chunks")
      ELSE IF ~removed THEN Ret(data, "no C2PA chunks found to remove")
      ELSE IF nativeCheckC2PA(cleanedData) = "true"
        THEN Ret(data, "PNG fallback removal failed verification check")
      ELSE Ret(cleanedData, "nil")

(***************************************************************************)
(* WASM build: the fallback section of RemoveC2PA (main_wasmer.go).        *)
(***************************************************************************)
\* the buf.Write calls for one retained segment
wasmWriteSegment(seg) ==
  <<255, seg.Marker % 256>> \o
  (IF seg.Length > 0
     THEN <<(seg.Length \div 256) % 256, seg.Length % 256>> \o seg.Data
     ELSE <<>>)

RECURSIVE wasmWriteSegments(_, _)
wasmWriteSegments(segments, i) ==
  IF i > Len(segments) THEN <<>>
  ELSE IF wasmSegmentIsC2PA(segments[i]) THEN wasmWriteSegments(segments, i + 1)
  ELSE wasmWriteSegment(segments[i]) \o wasmWriteSegments(segments, i + 1)

wasmFallback(format, data) ==
  IF format = "jpeg" THEN
    LET segments == parseJPEG(data)
        removed == \E i \in 1..Len(segments) : wasmSegmentIsC2PA(segments[i])
        foundEOI == \E i \in 1..Len(segments) : segments[i].Marker = 217
        cleanedData == SOI \o wasmWriteSegments(segments, 1) \o (IF foundEOI THEN EOI ELSE <<>>)
    IN  IF ~removed THEN Ret(data, "fallback mode found no C2PA markers to remove")
        ELSE IF wasmCheckC2PA(cleanedData) = "true"
          THEN Ret(data, "fallback removal failed verification check")
        ELSE Ret(cleanedData, "nil")
  ELSE Ret(<<>>, "failed to remove C2PA metadata (smart mode failed, no fallback)")

(***************************************************************************)
(* The four scanning loops, one iteration at a time: the value of pos at   *)
(* the next test of the loop condition, or -1 when the iteration leaves    *)
(* the loop (condition false, break, return, or a run-time fault).         *)
(***************************************************************************)
\* mutant: an overrunning length leaves pos where it is
checkC2PAJPEGNextPos_stuck(data, pos) ==
  IF ~(pos < Len(data) - 4) THEN -1
  ELSE IF At(data, pos) # 255 THEN pos + 1
  ELSE LET markerType == At(data, pos + 1)
           length == Uint16(data, pos + 2)
       IN  IF markerType = 218 THEN -1
           ELSE IF markerType = 225 THEN
             IF pos + 2 + length > Len(data) THEN pos
             ELSE IF pos + 4 > pos + 2 + length THEN -1
             ELSE IF xmpHasC2PA(Slice(data, pos + 4, pos + 2 + length)) THEN -1
             ELSE pos + 2 + length
           ELSE IF markerType = 235 THEN
             IF pos + 2 + length > Len(data) THEN pos ELSE -1
           ELSE IF markerType >= 224 /\ markerType <= 239 THEN
             IF pos + 2 + length > Len(data) THEN pos ELSE pos + 2 + length
           ELSE pos + 2

\* native checkC2PAJPEG: for pos < len(data)-4 { ... }
checkC2PAJPEGNextPos(data, pos) ==
  IF ~(pos < Len(data) - 4) THEN -1
  ELSE IF At(data, pos) # 255 THEN pos + 1
  ELSE LET markerType == At(data, pos + 1)
           length == Uint16(data, pos + 2)
       IN  IF markerType = 218 THEN -1
           ELSE IF markerType = 225 THEN
             IF pos + 2 + length > Len(data) THEN pos + 2
             ELSE IF pos + 4 > pos + 2 + length THEN -1
             ELSE IF xmpHasC2PA(Slice(data, pos + 4, pos + 2 + length)) THEN -1
             ELSE pos + 2 + length
           ELSE IF markerType = 235 THEN
             IF pos + 2 + length > Len(data) THEN pos + 2 ELSE -1
           ELSE IF markerType >= 224 /\ markerType <= 239 THEN
             IF pos + 2 + length > Len(data) THEN pos + 2 ELSE pos + 2 + length
           ELSE pos + 2

\* native removeC2PAFallbackJPEG: for pos < len(data)-1 { ... }
fallbackJPEGNextPos(data, pos) ==
  IF ~(pos < Len(data) - 1) THEN -1
  ELSE IF At(data, pos) # 255 THEN pos + 1
  ELSE LET markerType == At(data, pos + 1)
       IN  IF markerType \in {218, 217} THEN -1
           ELSE IF (markerType >= 208 /\ markerType <= 215) \/ markerType = 1 THEN pos + 2
           ELSE IF pos + 4 > Len(data) THEN -1
           ELSE LET length == Uint16(data, pos + 2)
                IN  IF length < 2 THEN pos + 2
                    ELSE IF pos + 2 + length > Len(data) THEN -1
                    ELSE pos + 2 + length

\* WASM parseJPEG: for pos < len(data)-1 { ... }
parseJPEGNextPos(data, pos) ==
  IF ~(pos < Len(data) - 1) THEN -1
  ELSE IF At(data, pos) # 255 THEN pos + 1
  ELSE LET marker == At(data, pos + 1)
           p == pos + 2
       IN  IF (marker >= 208 /\ marker <= 215) \/ marker = 1 THEN p
           ELSE IF marker \in {218, 217} THEN -1
           ELSE IF p + 2 > Len(data) THEN -1
           ELSE LET length == Uint16(data, p)
                IN  IF length < 2 THEN -1
                    ELSE IF p + 2 + (length - 2) > Len(data) THEN -1
                    ELSE p + 2 + (length - 2)

\* extractPNGChunks (both builds): for pos+12 <= len(data) { ... }
extractPNGChunksNextPos(data, pos) ==
  IF ~(pos + 12 <= Len(data)) THEN -1
  ELSE LET length == Uint32(data, pos)
       IN  IF AddExceeds(pos + 8 + 4, length, Len(data)) THEN -1
           ELSE IF Slice(data, pos + 4, pos + 8) = T_IEND THEN -1
           ELSE pos + 8 + ToInt(length) + 4

(***************************************************************************)
(* Input space.  An input is a header, up to MaxSegs (MaxChunks) pieces    *)
(* drawn from a library of segments (chunks), and a tail.  Each piece is   *)
(* written out as the bytes a file would hold.                             *)
(***************************************************************************)
SeqsUpTo(S, n) == UNION {[1..k -> S] : k \in 0..n}

\* a length-carrying JPEG segment: marker, big-endian length, payload
Seg(marker, payload) ==
  <<255, marker, (Len(payload) + 2) \div 256, (Len(payload) + 2) % 256>> \o payload

\* APP0 "JF"
J_APP0 == <<255, 224, 0, 4, 74, 70>>

\* APP1, XMP prefix + "CAI" (matched by the regexp only)
J_XMP_CAI == Seg(225, XMP_PREFIX \o <<67, 65, 73>>)

\* APP1, XMP prefix + "jumbf"
J_XMP_jumbf == Seg(225, XMP_PREFIX \o S_jumbf)

\* APP1, XMP prefix + "x" (no keyword)
J_XMP_plain == Seg(225, XMP_PREFIX \o <<120>>)

\* APP1 without the XMP prefix, payload "c2pa"
J_APP1_exif == <<255, 225, 0, 6, 99, 50, 112, 97>>

\* APP11 with an empty payload (length 2)
J_APP11_empty == <<255, 235, 0, 2>>

\* APP11 with a one-byte payload
J_APP11 == <<255, 235, 0, 3, 74>>

\* DQT whose payload holds the bytes FF EB 00 02 00
J_DQT_EB == <<255, 219, 0, 7, 255, 235, 0, 2, 0>>

\* DQT whose payload holds the bytes FF DA
J_DQT_DA == <<255, 219, 0, 4, 255, 218>>

\* APP1 marker declaring length 0
J_APP1_len0 == <<255, 225, 0, 0>>

\* a stray byte
J_stray == <<0>>

\* one FF padding byte (before the FF of the next marker)
J_pad == <<255>>

JPieces ==
  {J_APP0,
   J_XMP_CAI,
   J_XMP_jumbf,
   J_XMP_plain,
   J_APP1_exif,
   J_APP11_empty,
   J_APP11,
   J_DQT_EB,
   J_DQT_DA,
   J_APP1_len0,
   J_stray,
   J_pad}

\* SOS header, one byte of scan data, EOI
J_scan == <<255, 218, 0, 3, 1, 0, 255, 217>>

\* APP0 declaring 16 bytes of which one is present
J_truncated == <<255, 224, 0, 16, 74>>

\* APP0 declaring 16 bytes; the five present hold FF EB 00 02 00
J_truncated_EB == <<255, 224, 0, 16, 255, 235, 0, 2, 0>>

JTails == {<<>>, EOI, J_scan, J_truncated, J_truncated_EB}

JPEGInputs ==
  {SOI \o Concat(segs) \o tail : segs \in SeqsUpTo(JPieces, MaxSegs), tail \in JTails}

\* a PNG chunk is length(4) type(4) data crc(4)
\* IDAT, two data bytes
P_IDAT == <<0, 0, 0, 2, 73, 68, 65, 84, 120, 156, 1, 2, 3, 4>>

\* IDAT whose data holds "c2pa"
P_IDAT_c2pa == <<0, 0, 0, 4, 73, 68, 65, 84, 99, 50, 112, 97, 5, 6, 7, 8>>

\* iTXt "c2pa:manifest"
P_iTXt_manifest == <<0, 0, 0, 13, 105, 84, 88, 116, 99, 50, 112, 97, 58, 109, 97, 110, 105, 102, 101, 115, 116, 9, 10, 11, 12>>

\* tEXt "C2pa" (mixed case)
P_tEXt_C2pa == <<0, 0, 0, 4, 116, 69, 88, 116, 67, 50, 112, 97, 13, 14, 15, 16>>

\* tEXt "hi"
P_tEXt_hi == <<0, 0, 0, 2, 116, 69, 88, 116, 104, 105, 17, 18, 19, 20>>

\* tEXt "contentcredentials"
P_tEXt_cc == <<0, 0, 0, 18, 116, 69, 88, 116, 99, 111, 110, 116, 101, 110, 116, 99, 114, 101, 100, 101, 110, 116, 105, 97, 108, 115, 21, 22, 23, 24>>

\* tEXt declaring 9 data bytes of which one is present
P_truncated == <<0, 0, 0, 9, 116, 69, 88, 116, 65>>

PPieces ==
  {P_IDAT,
   P_IDAT_c2pa,
   P_iTXt_manifest,
   P_tEXt_C2pa,
   P_tEXt_hi,
   P_tEXt_cc,
   P_truncated}

P_IHDR == <<0, 0, 0, 1, 73, 72, 68, 82, 8, 25, 26, 27, 28>>

P_IEND == <<0, 0, 0, 0, 73, 69, 78, 68, 174, 66, 96, 130>>

PHeads == {<<>>, P_IHDR}

\* nothing, IEND, IEND followed by two trailing bytes
PTails == {<<>>, P_IEND, P_IEND \o <<0, 0>>}

PNGInputs ==
  {PNG_SIGNATURE \o head \o Concat(cs) \o tail :
     head \in PHeads, cs \in SeqsUpTo(PPieces, MaxChunks), tail \in PTails}

\* empty, "This", a lone FF, FF D8 followed by 00, half a PNG signature
OtherInputs == {<<>>, <<84, 104, 105, 115>>, <<255>>, <<255, 216, 0>>, <<137, 80, 78, 71>>}

Inputs == JPEGInputs \cup PNGInputs \cup OtherInputs

\* length fields 0, 1 and 65535 on JPEG markers, 0 and 2^32-1 on PNG chunks
AdversarialInputs ==
  {SOI \o <<255, 224, 0, 0>> \o J_APP11 \o EOI,
   SOI \o <<255, 224, 0, 1>> \o J_APP0 \o EOI,
   SOI \o <<255, 219, 0, 1, 255, 219, 0, 0>> \o J_scan,
   SOI \o <<255, 235, 0, 1, 0, 0, 0>>,
   SOI \o <<255, 224, 255, 255>> \o J_APP0 \o J_scan,
   SOI \o <<255, 225, 255, 255, 0, 0, 0, 0>>,
   SOI \o <<255, 255, 255, 255, 255, 255, 255, 255>>,
   PNG_SIGNATURE \o <<255, 255, 255, 255, 116, 69, 88, 116, 1, 2, 3, 4>> \o P_IEND,
   PNG_SIGNATURE \o <<0, 0, 0, 0, 116, 69, 88, 116, 1, 2, 3, 4>> \o P_IDAT \o P_IEND,
   PNG_SIGNATURE \o <<128, 0, 0, 0, 73, 68, 65, 84, 1, 2, 3, 4>> \o P_IEND}

LoopInputs == Inputs \cup AdversarialInputs

(***************************************************************************)
(* image.Decode, jpeg.Encode and png.Encode are library code.  Decoding    *)
(* and encoding each succeed or fail; a successful encode yields a fresh   *)
(* container of the input's family, on which the detector is negative or   *)
(* positive (the code provides for both).                                  *)
(***************************************************************************)
ReencodedJPEG ==
  {<<255, 216, 255, 219, 0, 3, 16, 255, 218, 0, 3, 1, 0, 255, 217>>,
   <<255, 216, 255, 235, 0, 3, 0, 255, 218, 0, 3, 1, 0, 255, 217>>}

ReencodedPNG ==
  {<<137, 80, 78, 71, 13, 10, 26, 10, 0, 0, 0, 1, 73, 72, 68, 82, 8, 25, 26, 27, 28, 0, 0, 0, 2, 73, 68, 65, 84, 120, 156, 1, 2, 3, 4, 0, 0, 0, 0, 73, 69, 78, 68, 174, 66, 96, 130>>,
   <<137, 80, 78, 71, 13, 10, 26, 10, 0, 0, 0, 1, 73, 72, 68, 82, 8, 25, 26, 27, 28, 0, 0, 0, 4, 73, 68, 65, 84, 99, 50, 112, 97, 5, 6, 7, 8, 0, 0, 0, 0, 73, 69, 78, 68, 174, 66, 96, 130>>}

Reencoded(format) == IF format = "jpeg" THEN ReencodedJPEG ELSE ReencodedPNG

(***************************************************************************)
(* Format sniffing of RemoveC2PA.                                          *)
(***************************************************************************)
\* mutant: PNG recognised by the first four signature bytes only
nativeFormat_short(data) ==
  IF HasPrefix(data, SOI) THEN "jpeg"
  ELSE IF HasPrefix(data, <<137, 80, 78, 71>>) THEN "png"
  ELSE ""

\* native RemoveC2PA, "Detect image format"; "" is the unsupported case
nativeFormat(data) ==
  IF HasPrefix(data, SOI) THEN "jpeg"
  ELSE IF HasPrefix(data, PNG_SIGNATURE) THEN "png"
  ELSE ""

\* WASM detectImageFormat; "" is the error return
detectImageFormat(data) ==
  IF HasPrefix(data, <<255, 216, 255>>) THEN "jpeg"
  ELSE IF HasPrefix(data, PNG_SIGNATURE) THEN "png"
  ELSE ""

(***************************************************************************)
(* One call of the API: op on data, in one build.                          *)
(*   pc        position of the call                                        *)
(*   format    the sniffed format ("" before sniffing / unsupported)       *)
(*   buf       the re-encoded bytes of smart mode                          *)
(*   ret, err  the returned bytes and error of RemoveC2PA ("nil" = none;   *)
(*             "" while the call has not returned)                         *)
(*   detected  the result of CheckC2PA (op = "CheckC2PA")                  *)
(*   smartAttempts, fallbackAttempts                                       *)
(*             how often decode/re-encode and a fallback were entered      *)
(***************************************************************************)
VARIABLES build, op, data, pc, format, buf, ret, err, detected,
          smartAttempts, fallbackAttempts, stdout, stderr, loop, loopPos, loopIter

vars == <<build, op, data, pc, format, buf, ret, err, detected,
          smartAttempts, fallbackAttempts, stdout, stderr, loop, loopPos, loopIter>>

Init ==
  /\ build \in {"native", "wasm"}
  /\ op \in {"CheckC2PA", "RemoveC2PA"} \cup (IF build = "wasm" THEN {"main"} ELSE {})
  /\ data \in Inputs
  /\ pc = "Start"
  /\ format = ""
  /\ buf = <<>>
  /\ ret = <<>>
  /\ err = ""
  /\ detected = ""
  /\ smartAttempts = 0
  /\ fallbackAttempts = 0
  /\ stdout = <<>>
  /\ stderr = <<>>
  /\ loop = ""
  /\ loopPos = 0
  /\ loopIter = 0

\* WASM main, from reading stdin up to the call of RemoveC2PA: the empty-input
\* exit, CheckC2PA, and the write of the original when nothing is detected.
\* stdout holds one entry per os.Stdout.Write, stderr the unconditional messages
MainCheck ==
  /\ op = "main" /\ pc = "Start"
  /\ IF Len(data) = 0
       THEN /\ stderr' = Append(stderr, "Error: No input data received")
            /\ pc' = "Exit"
            /\ UNCHANGED <<stdout, detected>>
       ELSE /\ detected' = CheckC2PA(build, data)
            /\ IF detected' = "false"
                 THEN /\ stdout' = Append(stdout, data)
                      /\ stderr' = Append(stderr, "Input does not contain C2PA metadata.")
                      /\ pc' = "Exit"
                 ELSE /\ stderr' = Append(stderr, "C2PA metadata detected, attempting removal...")
                      /\ pc' = IF detected' = "panic" THEN "Panic" ELSE "Call"
                      /\ UNCHANGED stdout
  /\ UNCHANGED <<loop, loopPos, loopIter, build, op, data, format, buf, ret, err, smartAttempts, fallbackAttempts>>

\* mutant: the returned bytes are written whether or not RemoveC2PA failed
mainWrite_ignoreErr(e, cleanedData, inputData) == cleanedData

\* WASM main: what is written to os.Stdout after RemoveC2PA returned
mainWrite(e, cleanedData, inputData) ==
  IF e # "nil" THEN inputData ELSE cleanedData

\* WASM main, after RemoveC2PA returned: the single write and the exit
MainFinish ==
  /\ op = "main" /\ pc = "Return"
  /\ stdout' = Append(stdout, mainWrite(err, ret, data))
  /\ stderr' = Append(stderr, IF err # "nil" THEN "Error removing C2PA metadata"
                                             ELSE "C2PA metadata removed successfully.")
  /\ pc' = "Exit"
  /\ UNCHANGED <<loop, loopPos, loopIter, build, op, data, format, buf, ret, err, detected, smartAttempts, fallbackAttempts>>

\* CheckC2PA(data), the whole call
CallCheckC2PA ==
  /\ op = "CheckC2PA" /\ pc = "Start"
  /\ detected' = CheckC2PA(build, data)
  /\ pc' = IF detected' = "panic" THEN "Panic" ELSE "Return"
  /\ UNCHANGED <<loop, loopPos, loopIter, stdout, stderr, build, op, data, format, buf, ret, err, smartAttempts, fallbackAttempts>>

\* RemoveC2PA: format detection, and the unsupported-format return
DetectFormat ==
  /\ (op = "RemoveC2PA" /\ pc = "Start") \/ (op = "main" /\ pc = "Call")
  /\ format' = IF build = "native" THEN nativeFormat(data) ELSE detectImageFormat(data)
  /\ IF format' = ""
       THEN /\ pc' = "Return"
            /\ ret' = <<>>
            /\ err' = "unsupported image format"
       ELSE /\ pc' = "FormatDetected"
            /\ UNCHANGED <<ret, err>>
  /\ UNCHANGED <<loop, loopPos, loopIter, stdout, stderr, build, op, data, buf, detected, smartAttempts, fallbackAttempts>>

\* RemoveC2PA: image.Decode
Decode ==
  /\ pc = "FormatDetected"
  /\ smartAttempts' = smartAttempts + 1
  /\ \E ok \in BOOLEAN : pc' = IF ok THEN "Decoded" ELSE "Fallback"
  /\ UNCHANGED <<loop, loopPos, loopIter, stdout, stderr, build, op, data, format, buf, ret, err, detected, fallbackAttempts>>

\* RemoveC2PA: jpeg.Encode / png.Encode into buf
Encode ==
  /\ pc = "Decoded"
  /\ \/ /\ pc' = "Fallback"
        /\ buf' = buf
     \/ /\ pc' = "Encoded"
        /\ buf' \in Reencoded(format)
  /\ UNCHANGED <<loop, loopPos, loopIter, stdout, stderr, build, op, data, format, ret, err, detected, smartAttempts, fallbackAttempts>>

\* RemoveC2PA: CheckC2PA on the re-encoded bytes
VerifySmart ==
  /\ pc = "Encoded"
  /\ LET c == CheckC2PA(build, buf)
     IN  IF c = "false"
           THEN /\ pc' = "Return"
                /\ ret' = buf
                /\ err' = "nil"
           ELSE /\ pc' = IF c = "panic" THEN "Panic" ELSE "Fallback"
                /\ UNCHANGED <<ret, err>>
  /\ UNCHANGED <<loop, loopPos, loopIter, stdout, stderr, build, op, data, format, buf, detected, smartAttempts, fallbackAttempts>>

\* native RemoveC2PA: return removeC2PAFallbackJPEG(data)
NativeFallbackJPEG ==
  /\ pc = "Fallback" /\ build = "native" /\ format = "jpeg"
  /\ LET r == removeC2PAFallbackJPEG(data)
     IN  ret' = r.bytes /\ err' = r.err
  /\ pc' = "Return"
  /\ fallbackAttempts' = fallbackAttempts + 1
  /\ UNCHANGED <<loop, loopPos, loopIter, stdout, stderr, build, op, data, format, buf, detected, smartAttempts>>

\* native RemoveC2PA: return removeC2PAFallbackPNG(data)
NativeFallbackPNG ==
  /\ pc = "Fallback" /\ build = "native" /\ format = "png"
  /\ LET r == removeC2PAFallbackPNG(data)
     IN  ret' = r.bytes /\ err' = r.err
  /\ pc' = "Return"
  /\ fallbackAttempts' = fallbackAttempts + 1
  /\ UNCHANGED <<loop, loopPos, loopIter, stdout, stderr, build, op, data, format, buf, detected, smartAttempts>>

\* WASM RemoveC2PA: "2. Fallback Mode (JPEG specific for now)"
WasmFallbackJPEG ==
  /\ pc = "Fallback" /\ build = "wasm" /\ format = "jpeg"
  /\ LET r == wasmFallback(format, data)
     IN  ret' = r.bytes /\ err' = r.err
  /\ pc' = "Return"
  /\ fallbackAttempts' = fallbackAttempts + 1
  /\ UNCHANGED <<loop, loopPos, loopIter, stdout, stderr, build, op, data, format, buf, detected, smartAttempts>>

\* WASM RemoveC2PA: no fallback for PNG, the final error return
WasmNoFallback ==
  /\ pc = "Fallback" /\ build = "wasm" /\ format = "png"
  /\ LET r == wasmFallback(format, data)
     IN  ret' = r.bytes /\ err' = r.err
  /\ pc' = "Return"
  /\ UNCHANGED <<loop, loopPos, loopIter, stdout, stderr, build, op, data, format, buf, detected, smartAttempts, fallbackAttempts>>

Next ==
  \/ MainCheck
  \/ MainFinish
  \/ CallCheckC2PA
  \/ DetectFormat
  \/ Decode
  \/ Encode
  \/ VerifySmart
  \/ NativeFallbackJPEG
  \/ NativeFallbackPNG
  \/ WasmFallbackJPEG
  \/ WasmNoFallback

Spec == Init /\ [][Next]_vars

TypeOK ==
  /\ build \in {"native", "wasm"}
  /\ op \in {"CheckC2PA", "RemoveC2PA", "main"}
  /\ pc \in {"Start", "Call", "FormatDetected", "Decoded", "Encoded", "Fallback", "Return",
            "Panic", "Exit"}
  /\ Len(stdout) <= 1
  /\ format \in {"", "jpeg", "png"}
  /\ detected \in {"", "true", "false", "panic"}

(***************************************************************************)
(* The scanning loops run one iteration per step: loop names the function, *)
(* loopPos is pos at the loop condition, -1 once the loop has been left,    *)
(* loopIter the number of times the loop condition was evaluated.          *)
(* Each loop starts where its function starts it, on an input its caller   *)
(* hands to it (the JPEG loops behind the SOI test, the PNG loop behind    *)
(* the signature test).                                                    *)
(***************************************************************************)
LoopsOf(b) ==
  IF b = "native" THEN {"checkC2PAJPEG", "removeC2PAFallbackJPEG", "extractPNGChunks"}
  ELSE {"parseJPEG", "extractPNGChunks"}

LoopInit ==
  /\ build \in {"native", "wasm"}
  /\ loop \in LoopsOf(build)
  /\ data \in {d \in LoopInputs :
                 IF loop = "extractPNGChunks" THEN HasPrefix(d, PNG_SIGNATURE)
                 ELSE HasPrefix(d, SOI)}
  /\ loopPos = IF loop = "extractPNGChunks" THEN 8 ELSE 2
  /\ loopIter = 0
  /\ op = "" /\ pc = "Loop" /\ format = "" /\ buf = <<>> /\ ret = <<>> /\ err = ""
  /\ detected = "" /\ smartAttempts = 0 /\ fallbackAttempts = 0
  /\ stdout = <<>> /\ stderr = <<>>

LoopUnchanged ==
  UNCHANGED <<build, op, data, pc, format, buf, ret, err, detected,
              smartAttempts, fallbackAttempts, stdout, stderr, loop>>

IterateCheckC2PAJPEG ==
  /\ loop = "checkC2PAJPEG" /\ loopPos >= 0
  /\ loopPos' = checkC2PAJPEGNextPos(data, loopPos)
  /\ loopIter' = loopIter + 1
  /\ LoopUnchanged

IterateFallbackJPEG ==
  /\ loop = "removeC2PAFallbackJPEG" /\ loopPos >= 0
  /\ loopPos' = fallbackJPEGNextPos(data, loopPos)
  /\ loopIter' = loopIter + 1
  /\ LoopUnchanged

IterateParseJPEG ==
  /\ loop = "parseJPEG" /\ loopPos >= 0
  /\ loopPos' = parseJPEGNextPos(data, loopPos)
  /\ loopIter' = loopIter + 1
  /\ LoopUnchanged

IterateExtractPNGChunks ==
  /\ loop = "extractPNGChunks" /\ loopPos >= 0
  /\ loopPos' = extractPNGChunksNextPos(data, loopPos)
  /\ loopIter' = loopIter + 1
  /\ LoopUnchanged

LoopNext ==
  \/ IterateCheckC2PAJPEG
  \/ IterateFallbackJPEG
  \/ IterateParseJPEG
  \/ IterateExtractPNGChunks

LoopSpec == LoopInit /\ [][LoopNext]_vars

(***************************************************************************)
(* Properties.                                                             *)
(***************************************************************************)
Returned == op = "RemoveC2PA" /\ pc = "Return"

Checked == op = "CheckC2PA" /\ pc # "Start"

Unrecognised(d) == ~HasPrefix(d, SOI) /\ ~HasPrefix(d, PNG_SIGNATURE)

\* C1: whenever RemoveC2PA returns without error, CheckC2PA of the returned
\* bytes is false (smart mode, PNG fallback and JPEG fallback alike).
C1_CleanedIsClean ==
  (Returned /\ err = "nil") => CheckC2PA(build, ret) = "false"

\* C2: for an input on which CheckC2PA is false, RemoveC2PA returns bytes
\* identical to the input (never a re-encoded or rebuilt image).  Stated for
\* the inputs whose format RemoveC2PA recognises; the unsupported-format
\* return is the subject of C3 and C5.
C2_CleanInputUnchanged ==
  (Returned /\ format # "" /\ CheckC2PA(build, data) = "false") => ret = data

\* C3: whenever RemoveC2PA returns a non-nil error, the bytes it returns are
\* byte-identical to the input.
C3_ErrorReturnsInput ==
  (Returned /\ err # "nil") => ret = data

\* C4: CheckC2PA never faults and returns a boolean; on an input with neither
\* the JPEG nor the PNG signature it returns false.
C4_CheckNeverFails ==
  Checked => /\ pc = "Return"
             /\ detected \in {"true", "false"}
             /\ (Unrecognised(data) => detected = "false")

\* C5: on an input that begins with neither the JPEG nor the PNG signature,
\* RemoveC2PA returns the unsupported-format error and enters neither smart
\* mode nor a fallback.
C5_UnsupportedFormat ==
  (op = "RemoveC2PA" /\ pc # "Start" /\ Unrecognised(data)) =>
     /\ pc = "Return"
     /\ err = "unsupported image format"
     /\ smartAttempts = 0
     /\ fallbackAttempts = 0

C5_Witness ==
  /\ Returned
  /\ data = <<84, 104, 105, 115>>
  /\ err = "unsupported image format"

\* the segments of a JPEG up to the first SOS/EOI hold one with this property
HasSegment(d, P(_)) ==
  LET segments == parseJPEG(d) IN \E i \in 1..Len(segments) : P(segments[i])

IsAPP11(seg) == seg.Marker = 235

\* the keyword list of the detector contract, matched in any letter case
HasKeyword(payload) ==
  LET l == ToLower(payload)
  IN  \E k \in {C2PA_NAMESPACE, C2PA_MANIFEST_TAG, C2PA_CLAIM_TAG, S_c2pa,
                S_contentauthenticity, S_contentcredentials, S_cai, S_jumbf} :
        Contains(l, k)

IsC2PAXMP(seg) ==
  seg.Marker = 225 /\ HasPrefix(seg.Data, XMP_PREFIX) /\ HasKeyword(seg.Data)

IsC2PASegment(seg) == IsAPP11(seg) \/ IsC2PAXMP(seg)

\* C6: a JPEG with a complete APP11 segment among the segments before the
\* first SOS/EOI is detected, whatever the payload and whatever follows.
C6_APP11Detected ==
  (Checked /\ HasPrefix(data, SOI) /\ HasSegment(data, IsAPP11)) => detected = "true"

\* C7: a JPEG with a complete APP1 segment whose payload begins with the XMP
\* prefix and holds a C2PA keyword (any letter case, "jumbf" included) is
\* detected.
C7_XMPKeywordDetected ==
  (Checked /\ HasPrefix(data, SOI) /\ HasSegment(data, IsC2PAXMP)) => detected = "true"

\* C8: a JPEG is detected only if its segments up to the first SOS/EOI hold an
\* APP11 segment or an XMP APP1 segment with a C2PA keyword.
C8_DetectedOnlyBySegments ==
  (Checked /\ HasPrefix(data, SOI) /\ detected = "true") => HasSegment(data, IsC2PASegment)

\* the PNG detector substrings
PNGSubstrings == {S_C2PA, S_c2pa, S_caiColon, S_contentauthenticity, S_contentcredentials}

PNGTextChunkMatches(d) ==
  LET chunks == extractPNGChunks(d)
  IN  \E i \in 1..Len(chunks) :
        /\ chunks[i].chunkType \in {T_iTXt, T_tEXt}
        /\ \E k \in PNGSubstrings : Contains(ToLower(chunks[i].data), ToLower(k))

\* C9: a PNG is detected whenever its raw bytes hold one of the detector
\* substrings, and whenever the text of an iTXt/tEXt chunk holds one of them
\* in any letter case.
C9_PNGNeverUnderFlags ==
  (/\ Checked
   /\ HasPrefix(data, PNG_SIGNATURE)
   /\ \/ \E k \in PNGSubstrings : Contains(data, k)
      \/ PNGTextChunkMatches(data))
  => detected = "true"

\* the bytes of the input's unflagged chunks, as they stand in the input:
\* from pos, chunk by chunk, up to and including IEND or the first chunk
\* that does not fit
RECURSIVE KeptChunkBytes(_, _)
KeptChunkBytes(d, pos) ==
  IF pos + 12 > Len(d) THEN <<>>
  ELSE LET n == Uint32(d, pos)
       IN  IF AddExceeds(pos + 12, n, Len(d)) THEN <<>>
           ELSE LET stop == pos + 12 + ToInt(n)
                    type == Slice(d, pos + 4, pos + 8)
                    text == Slice(d, pos + 8, stop - 4)
                    flagged == /\ type \in {T_iTXt, T_tEXt}
                               /\ \E k \in {S_c2pa, S_contentauthenticity, S_caiColon} :
                                    Contains(ToLower(text), k)
                IN  (IF flagged THEN <<>> ELSE Slice(d, pos, stop))
                    \o (IF type = T_IEND THEN <<>> ELSE KeptChunkBytes(d, stop))

PNGFallbackSucceeded ==
  /\ Returned /\ build = "native" /\ format = "png"
  /\ fallbackAttempts = 1 /\ err = "nil"

\* C10: when the PNG fallback succeeds, its output is the PNG signature
\* followed by exactly the unflagged chunks of the input, in order, each
\* with its length, type, data and CRC bytes as in the input.
C10_PNGFallbackKeepsChunks ==
  PNGFallbackSucceeded => ret = PNG_SIGNATURE \o KeptChunkBytes(data, 8)

\* a flagged iTXt between IHDR and IDAT: only that chunk is missing
C10_Witness ==
  /\ PNGFallbackSucceeded
  /\ data = PNG_SIGNATURE \o P_IHDR \o P_iTXt_manifest \o P_IDAT \o P_IEND
  /\ ret = PNG_SIGNATURE \o P_IHDR \o P_IDAT \o P_IEND

\* the position of the marker at which a walk over whole segments from pos
\* meets a declared length that overruns the buffer; -1 when the walk ends
\* otherwise (SOS, EOI, end of buffer, a length below 2)
RECURSIVE CutPos(_, _)
CutPos(d, pos) ==
  IF ~(pos < Len(d) - 1) THEN -1
  ELSE IF At(d, pos) # 255 THEN CutPos(d, pos + 1)
  ELSE LET marker == At(d, pos + 1)
       IN  IF (marker >= 208 /\ marker <= 215) \/ marker = 1 THEN CutPos(d, pos + 2)
           ELSE IF marker \in {217, 218} THEN -1
           ELSE IF pos + 4 > Len(d) THEN -1
           ELSE IF Uint16(d, pos + 2) < 2 THEN -1
           ELSE IF pos + 2 + Uint16(d, pos + 2) > Len(d) THEN pos
           ELSE CutPos(d, pos + 2 + Uint16(d, pos + 2))

\* d with the partial payload of the segment cut at position cut blanked
BlankPartialPayload(d, cut) == [i \in 1..Len(d) |-> IF i > cut + 4 THEN 0 ELSE d[i]]

\* C11: on a JPEG truncated in the middle of a segment, CheckC2PA is decided
\* by the segments fully present before the cut: the partial payload of the
\* incomplete segment is not scanned, so blanking it leaves the result as it
\* is.
C11_PartialPayloadNotScanned ==
  (Checked /\ HasPrefix(data, SOI) /\ CutPos(data, 2) >= 0) =>
     detected = CheckC2PA(build, BlankPartialPayload(data, CutPos(data, 2)))

\* the offset just past the first IEND chunk when the bytes from pos on are
\* whole chunks up to it; -1 when a chunk does not fit before an IEND is met
RECURSIVE PNGEndOfIEND(_, _)
PNGEndOfIEND(d, pos) ==
  IF pos + 12 > Len(d) THEN -1
  ELSE LET n == Uint32(d, pos)
       IN  IF AddExceeds(pos + 12, n, Len(d)) THEN -1
           ELSE IF Slice(d, pos + 4, pos + 8) = T_IEND THEN pos + 12 + ToInt(n)
           ELSE PNGEndOfIEND(d, pos + 12 + ToInt(n))

\* length + type + data + crc of every chunk, in order
RECURSIVE ChunkFields(_)
ChunkFields(chunks) ==
  IF chunks = <<>> THEN <<>>
  ELSE LET c == Head(chunks)
       IN  <<c.length.hi \div 256, c.length.hi % 256, c.length.lo \div 256, c.length.lo % 256>>
           \o c.chunkType \o c.data
           \o <<c.crc.hi \div 256, c.crc.hi % 256, c.crc.lo \div 256, c.crc.lo % 256>>
           \o ChunkFields(Tail(chunks))

PNGFallbackRan ==
  /\ Returned /\ build = "native" /\ format = "png" /\ fallbackAttempts = 1

\* C12: for a PNG that ends exactly at the end of its first IEND chunk, the
\* fields of the chunks returned by extractPNGChunks, concatenated in order,
\* are the input bytes from offset 8 on.
C12_ChunksReproduceInput ==
  (PNGFallbackRan /\ PNGEndOfIEND(data, 8) = Len(data)) =>
     ChunkFields(extractPNGChunks(data)) = Slice(data, 8, Len(data))

\* IHDR, IDAT, tEXt and IEND walked by the fallback
C12_Witness ==
  /\ PNGFallbackRan
  /\ data = PNG_SIGNATURE \o P_IHDR \o P_IDAT \o P_tEXt_hi \o P_IEND
  /\ Len(extractPNGChunks(data)) = 4

\* SOI was followed, from pos on, by length-carrying segments that fit in the
\* buffer, one after the other, up to an SOS marker
RECURSIVE WellFormedJPEGFrom(_, _)
WellFormedJPEGFrom(d, pos) ==
  /\ pos + 4 <= Len(d)
  /\ At(d, pos) = 255
  /\ LET marker == At(d, pos + 1)
         length == Uint16(d, pos + 2)
     IN  \/ marker = 218
         \/ /\ marker \notin ({217, 1, 255} \cup (208..215))
            /\ length >= 2
            /\ pos + 2 + length <= Len(d)
            /\ WellFormedJPEGFrom(d, pos + 2 + length)

WellFormedJPEG(d) == HasPrefix(d, SOI) /\ WellFormedJPEGFrom(d, 2)

\* the segment at pos is one the build's fallback flags for removal
FlaggedSegment(b, d, pos) ==
  LET marker == At(d, pos + 1)
      length == Uint16(d, pos + 2)
      payload == Slice(d, pos + 4, pos + 2 + length)
  IN  IF b = "native"
        THEN marker = 235 \/ (marker = 225 /\ xmpHasC2PA(payload))
        ELSE wasmSegmentIsC2PA(jpegSegment(marker, length, payload))

\* the bytes of a well-formed JPEG from pos on with the flagged segments
\* deleted: unflagged segments verbatim, then the SOS header and all that
\* follows it
RECURSIVE UnflaggedBytes(_, _, _)
UnflaggedBytes(b, d, pos) ==
  IF At(d, pos + 1) = 218 THEN Slice(d, pos, Len(d))
  ELSE LET next == pos + 2 + Uint16(d, pos + 2)
       IN  (IF FlaggedSegment(b, d, pos) THEN <<>> ELSE Slice(d, pos, next))
           \o UnflaggedBytes(b, d, next)

JPEGFallbackSucceeded ==
  /\ Returned /\ format = "jpeg" /\ fallbackAttempts = 1 /\ err = "nil"

\* C13: when the JPEG fallback succeeds on a well-formed JPEG, its output is
\* the input with exactly the flagged segments deleted: SOI, every unflagged
\* segment byte for byte, the SOS header and the whole of the scan data.
C13_JPEGFallbackDeletesOnlyFlagged ==
  (JPEGFallbackSucceeded /\ WellFormedJPEG(data)) =>
     ret = SOI \o UnflaggedBytes(build, data, 2)

\* C14: a run of the WASM main on a non-empty input writes exactly one image
\* to standard output: the cleaned bytes when RemoveC2PA succeeded, the
\* original input when nothing was detected or removal failed.  Never two
\* writes, and nothing but an image is written there.
C14_ExactlyOneImageWritten ==
  /\ Len(stdout) <= 1
  /\ (op = "main" /\ pc = "Exit" /\ Len(data) > 0) =>
        stdout = <<IF err = "nil" THEN ret ELSE data>>

\* a run that wrote cleaned bytes, and they differ from the input
C14_Witness ==
  /\ op = "main" /\ pc = "Exit" /\ err = "nil"
  /\ stdout = <<ret>> /\ ret # data
  /\ Len(stderr) = 2

\* C15: whenever RemoveC2PA succeeds, the returned bytes begin with the
\* container signature of the input's family: FF D8 for a JPEG input, the
\* 8-byte PNG signature for a PNG input.
C15_SuccessKeepsSignature ==
  (Returned /\ err = "nil") =>
     /\ format = "jpeg" => HasPrefix(ret, SOI)
     /\ format = "png" => HasPrefix(ret, PNG_SIGNATURE)

\* a success of the JPEG fallback that removed something
C15_Witness ==
  /\ Returned /\ err = "nil" /\ format = "jpeg"
  /\ fallbackAttempts = 1 /\ ret # data /\ HasPrefix(ret, SOI)

\* smart mode produced re-encoded bytes on which the detector is negative
SmartModeClean == buf # <<>> /\ CheckC2PA(build, buf) = "false"

\* C16: in both builds, a RemoveC2PA call on a supported format whose smart
\* mode gave no clean output (decode failed, encode failed, or the detector
\* was positive on the re-encoded bytes) has run the fallback of the input's
\* format, on the original input.
C16_FallbackForEveryFormat ==
  (Returned /\ format # "" /\ ~SmartModeClean) => fallbackAttempts = 1

\* one step of a RemoveC2PA call, as the two-tier sequence allows it
RemoveC2PAStep ==
  /\ pc = "FormatDetected" =>      \* smart mode is attempted, once, before any fallback
        /\ smartAttempts = 0 /\ smartAttempts' = 1
        /\ fallbackAttempts = 0 /\ fallbackAttempts' = 0
        /\ pc' \in {"Decoded", "Fallback"}
  /\ pc = "Decoded" =>
        /\ pc' \in {"Encoded", "Fallback"}
        /\ smartAttempts' = 1 /\ fallbackAttempts' = 0
  /\ pc = "Encoded" =>             \* clean output is returned, no fallback runs
        /\ smartAttempts' = 1 /\ fallbackAttempts' = 0
        /\ IF CheckC2PA(build, buf) = "false"
             THEN pc' = "Return" /\ ret' = buf /\ err' = "nil"
             ELSE pc' = "Fallback"
  /\ pc = "Fallback" =>            \* the fallback is attempted, once, and the call ends
        /\ smartAttempts = 1 /\ smartAttempts' = 1
        /\ fallbackAttempts = 0 /\ fallbackAttempts' = 1
        /\ pc' = "Return"
  /\ pc \notin {"FormatDetected", "Fallback"} =>
        /\ smartAttempts' = smartAttempts
        /\ fallbackAttempts' = fallbackAttempts
  /\ pc = "Return" => pc' \notin {"FormatDetected", "Decoded", "Encoded", "Fallback"}

\* C18: every RemoveC2PA call on a supported format goes Start,
\* FormatDetected, SmartModeAttempted, then Done or FallbackAttempted, then
\* Done or Failed: smart mode exactly once and before any fallback, the
\* fallback at most once and only after a decode failure, an encode failure
\* or a positive detector on the re-encoded bytes, a clean re-encode returned
\* without fallback, nothing retried after the fallback.
C18_TwoTierSequence == [][RemoveC2PAStep]_vars

\* the JPEG fallback of the build ran and dropped no segment
JPEGFallbackDroppedNothing ==
  /\ Returned /\ format = "jpeg" /\ fallbackAttempts = 1
  /\ IF build = "native"
       THEN fallbackJPEGDropped(data, 2) = 0
       ELSE \A i \in 1..Len(parseJPEG(data)) : ~wasmSegmentIsC2PA(parseJPEG(data)[i])

\* C19: when the JPEG fallback runs and drops no segment, RemoveC2PA returns
\* the original input bytes with a non-nil error (no removable metadata
\* found); never a success, never rebuilt bytes.
C19_NothingDroppedIsFailure ==
  JPEGFallbackDroppedNothing => (ret = data /\ err # "nil")

\* C20: when the PNG fallback runs on an input with at least one parsed chunk
\* and drops no chunk, the original input bytes are returned with the
\* "no C2PA chunks found to remove" error.
C20_NoChunkDroppedIsFailure ==
  (/\ PNGFallbackRan
   /\ Len(extractPNGChunks(data)) >= 1
   /\ \A i \in 1..Len(extractPNGChunks(data)) : ~isC2PAChunk(extractPNGChunks(data)[i]))
  => (ret = data /\ err = "no C2PA chunks found to remove")

\* a truncated PNG of unflagged chunks: rebuilding it would not give the input
C20_Witness ==
  /\ PNGFallbackRan
  /\ data = PNG_SIGNATURE \o P_IHDR \o P_IDAT \o P_truncated
  /\ Len(extractPNGChunks(data)) = 2
  /\ ret = data /\ err = "no C2PA chunks found to remove"

\* the PNG fallback ran and skipped at least one chunk
PNGFallbackDropped ==
  /\ PNGFallbackRan
  /\ \E i \in 1..Len(extractPNGChunks(data)) : isC2PAChunk(extractPNGChunks(data)[i])

\* C21: when the PNG fallback dropped a chunk but a detector substring is
\* still in the rebuilt bytes, the rebuilt bytes are discarded: the original
\* input is returned with the verification error.
C21_PNGVerificationFailure ==
  (/\ PNGFallbackDropped
   /\ \E k \in PNGSubstrings : Contains(PNG_SIGNATURE \o KeptChunkBytes(data, 8), k))
  => (ret = data /\ err = "PNG fallback removal failed verification check")

\* a flagged tEXt is dropped, "c2pa" stays in the data of an IDAT
C21_Witness ==
  /\ PNGFallbackDropped
  /\ data = PNG_SIGNATURE \o P_tEXt_C2pa \o P_IDAT_c2pa \o P_IEND
  /\ ret = data /\ err = "PNG fallback removal failed verification check"

\* the chunk is an iTXt or tEXt whose text holds, in any letter case, one of
\* c2pa, cai:, contentauthenticity, contentcredentials
TextChunkMatchesDetector(chunk) ==
  /\ chunk.chunkType \in {T_iTXt, T_tEXt}
  /\ \E k \in {S_c2pa, S_caiColon, S_contentauthenticity, S_contentcredentials} :
       Contains(ToLower(chunk.data), k)

\* C22: the PNG fallback drops a chunk exactly when it is an iTXt or tEXt
\* chunk whose text holds, in any letter case, one of the detector's
\* substrings c2pa, cai:, contentauthenticity, contentcredentials.
C22_PNGFallbackDropsDetectorMatches ==
  PNGFallbackRan =>
     \A i \in 1..Len(extractPNGChunks(data)) :
        isC2PAChunk(extractPNGChunks(data)[i])
          <=> TextChunkMatchesDetector(extractPNGChunks(data)[i])

\* how the build's walk over the segments of d ends, from pos: at an SOS
\* marker, at an explicit EOI marker, or otherwise (end of buffer, a segment
\* that does not fit; a length below 2 is skipped by the native walk and
\* ends the WASM walk)
RECURSIVE JPEGWalkEnd(_, _, _)
JPEGWalkEnd(b, d, pos) ==
  IF ~(pos < Len(d) - 1) THEN "none"
  ELSE IF At(d, pos) # 255 THEN JPEGWalkEnd(b, d, pos + 1)
  ELSE LET marker == At(d, pos + 1)
       IN  IF marker = 218 THEN "SOS"
           ELSE IF marker = 217 THEN "EOI"
           ELSE IF (marker >= 208 /\ marker <= 215) \/ marker = 1
             THEN JPEGWalkEnd(b, d, pos + 2)
           ELSE IF pos + 4 > Len(d) THEN "none"
           ELSE IF Uint16(d, pos + 2) < 2
             THEN IF b = "native" THEN JPEGWalkEnd(b, d, pos + 2) ELSE "none"
           ELSE IF pos + 2 + Uint16(d, pos + 2) > Len(d) THEN "none"
           ELSE JPEGWalkEnd(b, d, pos + 2 + Uint16(d, pos + 2))

\* C23: the output of the JPEG fallback ends with an EOI marker exactly when
\* the walk over the original met an explicit EOI; that EOI is in the output
\* once, and no EOI is appended to a stream whose walk met neither EOI nor SOS.
C23_EOIOnlyIfOriginalHadOne ==
  JPEGFallbackSucceeded =>
     /\ JPEGWalkEnd(build, data, 2) = "EOI" =>
           HasSuffix(ret, EOI) /\ ~HasSuffix(ret, EOI \o EOI)
     /\ JPEGWalkEnd(build, data, 2) = "none" => ~HasSuffix(ret, EOI)

\* C24: in every scanning loop (native JPEG detector, JPEG fallback walker,
\* WASM parseJPEG, extractPNGChunks) an iteration that does not leave the
\* loop moves pos strictly forward and not past the end of the input, so the
\* loop ends after at most len(data) iterations, whatever the length fields.
C24_LoopsAdvance ==
  [][(loopPos >= 0 /\ loopPos' >= 0) => (loopPos' > loopPos /\ loopPos' <= Len(data))]_vars

\* the native detector has stepped over a marker whose length overruns the
\* input and is still in its loop
C24_Witness ==
  /\ loop = "checkC2PAJPEG"
  /\ data = SOI \o <<255, 224, 255, 255>> \o J_APP0 \o J_scan
  /\ loopPos = 4

\* the position of the next marker (FF and a byte other than FF) at or after
\* pos; -1 when there is none
RECURSIVE NextMarkerPos(_, _)
NextMarkerPos(d, pos) ==
  IF pos + 1 >= Len(d) THEN -1
  ELSE IF At(d, pos) = 255 /\ At(d, pos + 1) # 255 THEN pos
  ELSE NextMarkerPos(d, pos + 1)

\* the bytes of d from pos on without the stray bytes and the FF padding
\* that stand before a marker: whole segments are kept as they are, and so
\* is everything from an SOS, an EOI or a marker with an unusable length on,
\* and whatever follows the last marker
RECURSIVE WithoutPadding(_, _)
WithoutPadding(d, pos) ==
  LET p == NextMarkerPos(d, pos)
  IN  IF p = -1 THEN Slice(d, pos, Len(d))
      ELSE LET marker == At(d, p + 1)
           IN  IF marker \in {218, 217} THEN Slice(d, p, Len(d))
               ELSE IF (marker >= 208 /\ marker <= 215) \/ marker = 1
                 THEN <<255, marker>> \o WithoutPadding(d, p + 2)
               ELSE IF p + 4 > Len(d) THEN Slice(d, p, Len(d))
               ELSE IF Uint16(d, p + 2) < 2 THEN Slice(d, p, Len(d))
               ELSE IF p + 2 + Uint16(d, p + 2) > Len(d) THEN Slice(d, p, Len(d))
               ELSE Slice(d, p, p + 2 + Uint16(d, p + 2))
                    \o WithoutPadding(d, p + 2 + Uint16(d, p + 2))

\* the JPEG fallback of build b, applied to d
JPEGFallbackOf(b, d) ==
  IF b = "native" THEN removeC2PAFallbackJPEG(d) ELSE wasmFallback("jpeg", d)

\* C25: FF padding before a marker and stray non-FF bytes are skipped, so a
\* JPEG is detected, and its segments dropped by the fallback, exactly as if
\* those bytes were absent.
C25_PaddingAndStrayBytesSkipped ==
  /\ (Checked /\ HasPrefix(data, SOI)) =>
        detected = CheckC2PA(build, SOI \o WithoutPadding(data, 2))
  /\ JPEGFallbackSucceeded =>
        ret = JPEGFallbackOf(build, SOI \o WithoutPadding(data, 2)).bytes

\* parseJPEG was applied to the input: by the WASM detector or the WASM fallback
ParseJPEGRan ==
  /\ build = "wasm"
  /\ \/ Checked /\ HasPrefix(data, SOI)
     \/ Returned /\ format = "jpeg" /\ fallbackAttempts = 1

\* extractPNGChunks was applied to the input: by the native PNG fallback, or
\* by the WASM detector after its raw scan found nothing
ExtractPNGChunksRan ==
  \/ PNGFallbackRan
  \/ /\ build = "wasm" /\ Checked /\ HasPrefix(data, PNG_SIGNATURE)
     /\ \A k \in PNGSubstrings : ~Contains(data, k)

C27_FormatSniffing ==
  /\ Checked =>
        detected = IF HasPrefix(data, SOI)
                     THEN (IF build = "native" THEN checkC2PAJPEG(data)
                                               ELSE wasmCheckC2PAJPEG(data))
                   ELSE IF HasPrefix(data, PNG_SIGNATURE)
                     THEN (IF build = "native" THEN checkC2PAPNG(data)
                                               ELSE wasmCheckC2PAPNG(data))
                   ELSE "false"
  /\ Returned =>
        /\ format = "jpeg" <=> HasPrefix(data, <<255, 216, 255>>)
        /\ format = "png" <=> HasPrefix(data, PNG_SIGNATURE)
        /\ (HasPrefix(data, SOI) /\ ~HasPrefix(data, <<255, 216, 255>>)) =>
              err = "unsupported image format"

\* the position of the first length-carrying marker, on a walk over whole
\* segments from pos, whose declared length is below 2 or overruns the
\* buffer; -1 when the walk ends without meeting one
RECURSIVE InvalidMarkerPos(_, _)
InvalidMarkerPos(d, pos) ==
  IF ~(pos < Len(d) - 1) THEN -1
  ELSE IF At(d, pos) # 255 THEN InvalidMarkerPos(d, pos + 1)
  ELSE LET marker == At(d, pos + 1)
       IN  IF (marker >= 208 /\ marker <= 215) \/ marker = 1 THEN InvalidMarkerPos(d, pos + 2)
           ELSE IF marker \in {217, 218} THEN -1
           ELSE IF pos + 4 > Len(d) THEN -1
           ELSE IF Uint16(d, pos + 2) < 2 THEN pos
           ELSE IF pos + 2 + Uint16(d, pos + 2) > Len(d) THEN pos
           ELSE InvalidMarkerPos(d, pos + 2 + Uint16(d, pos + 2))

\* the native JPEG fallback ran
NativeJPEGFallbackRan ==
  /\ Returned /\ build = "native" /\ format = "jpeg" /\ fallbackAttempts = 1

\* original statement of C28: at a length-carrying marker whose length is below
\* 2 or overruns the buffer the walk stops; what it returns or copies is what
\* it had collected before that marker, as if the input ended there, and no
\* error reaches the caller.
C28_WalkStopsAtInvalidMarker ==
  LET p == InvalidMarkerPos(data, 2)
  IN  /\ (ParseJPEGRan /\ p >= 0) => parseJPEG(data) = parseJPEG(Slice(data, 0, p))
      /\ (NativeJPEGFallbackRan /\ p >= 0) =>
            /\ ret = removeC2PAFallbackJPEG(Slice(data, 0, p)).bytes
            /\ err = "nil"

\* C28, amended: at a marker whose length overruns the buffer both walks stop
\* and keep what was collected before it; at a length below 2 the WASM
\* parseJPEG stops in the same way, while the native fallback steps over the
\* two marker bytes and goes on with the bytes behind them.  No error reaches
\* the caller.
C28_InvalidLengthHandling ==
  LET p == InvalidMarkerPos(data, 2)
      short == Uint16(data, p + 2) < 2
  IN  /\ (ParseJPEGRan /\ p >= 0) => parseJPEG(data) = parseJPEG(Slice(data, 0, p))
      /\ (NativeJPEGFallbackRan /\ p >= 0) =>
            /\ err = "nil"
            /\ ret = removeC2PAFallbackJPEG(
                       IF short THEN Slice(data, 0, p) \o Slice(data, p + 2, Len(data))
                                ELSE Slice(data, 0, p)).bytes

\* the native fallback stepped over an APP1 of length 0 and dropped the APP11
\* behind it
C28_Witness ==
  /\ NativeJPEGFallbackRan
  /\ data = SOI \o J_APP1_len0 \o J_APP11 \o EOI
  /\ ret = SOI \o EOI /\ err = "nil"

\* C29: in the native build the detector and the remover agree on every JPEG
\* input: CheckC2PA is true exactly when removeC2PAFallbackJPEG leaves out at
\* least one segment (a matching XMP APP1 or an APP11).
C29_DetectorAgreesWithRemover ==
  (Checked /\ build = "native" /\ HasPrefix(data, SOI)) =>
     (detected = "true" <=> fallbackJPEGDropped(data, 2) > 0)

\* C30: the native JPEG fallback is idempotent: applied to its own output it
\* returns that output (no further segment dropped, no byte skipped, no
\* further EOI appended).
C30_NativeFallbackIdempotent ==
  NativeJPEGFallbackRan =>
     removeC2PAFallbackJPEG(ret) = Ret(ret, "nil")

\* a first pass that dropped a segment, skipped a stray byte and appended an EOI
C30_Witness ==
  /\ NativeJPEGFallbackRan
  /\ data = SOI \o J_stray \o J_APP11 \o J_truncated
  /\ ret = SOI \o EOI
  /\ removeC2PAFallbackJPEG(ret).bytes = ret

=============================================================================
